---- MODULE Spec2Model ----
(***************************************************************************)
(* FixedTaskGroup of esammer/go-tasks (the revision with DoneC).           *)
(*                                                                         *)
(* One coordinator instance: the constructor thread, one goroutine per     *)
(* supplied task, the watcher goroutine, a set of callers of Cancel() and  *)
(* a consumer that reads ErrC() and DoneC().  Channels are modelled by     *)
(* their buffer and an open/closed flag; sync.WaitGroup by its counter;    *)
(* sync.Once by its state.  A Go runtime panic (send on or close of a      *)
(* closed channel, negative WaitGroup counter) sets `panicked`.            *)
(***************************************************************************)
EXTENDS Integers, Sequences, FiniteSets, TLC

\* ------------------------------------------------------------------ bounds
MaxTasks == 2
MaxCallers == 2

\* ------------------------------------------------------------ error values
Nil == "nil"
ErrTaskCancelled == "task cancelled"
ErrNames == <<"task A", "task B", "task C", "task D", "task E">>
TaskErr(i) == ErrNames[i]

\* --------------------------------------------------------------- the tasks
\* Task bodies a caller can supply (a Task is any func(cancelC) error):
\*   ok              returns nil at once
\*   fail            returns its own error at once
\*   failSentinel    returns ErrTaskCancelled at once
\*   waitOk          blocks until cancelC is readable, then returns nil
\*                   (the task of TestFixedTaskGroup_Cancel, whose one-minute
\*                   timer only guards the test against a hang)
\*   hang            never returns and never looks at cancelC
TaskKinds == {"ok", "fail", "failSentinel", "waitOk", "hang"}

\* The values the body of task i may return now, given whether cancelC is closed.
Outcomes(kind, i, cancelled) ==
  CASE kind = "ok" -> {Nil}
    [] kind = "fail" -> {TaskErr(i)}
    [] kind = "failSentinel" -> {ErrTaskCancelled}
    [] kind = "waitOk" -> IF cancelled THEN {Nil} ELSE {}
    [] OTHER -> {}

SeqsUpTo(S, n) == UNION {[1..k -> S] : k \in 0..n}

Callers == 1..MaxCallers

VARIABLES
  args,          \* the variadic argument of NewFixedTaskGroup: a sequence of task kinds
  tasks,         \* g.tasks
  wg,            \* g.wg: the WaitGroup counter
  errC,          \* g.errC: the buffered values
  errCap,        \* g.errC: its capacity
  errClosed,     \* g.errC is closed
  doneClosed,    \* g.doneC is closed
  cancelClosed,  \* g.cancelC is closed
  cancelOnce,    \* g.cancelOnce: "fresh", "running", "done"
  ctor,          \* constructor: index of the next task to start, Len(args)+1 = spawn the watcher, Len(args)+2 = returned
  tpc,           \* task goroutine i: "new", "spawned", "running", "send", "defer", "exit"
  terr,          \* task goroutine i: the value its task returned
  calls,         \* number of invocations of supplied task i
  sent,          \* number of values task goroutine i pushed onto errC
  wpc,           \* watcher goroutine: "new", "wait", "closeDone", "closeErr", "exit"
  cpc,           \* caller c of Cancel(): "idle", "do" (waiting in Do), "close" (running f), "returned"
  received,      \* consumer: the values read from ErrC() so far
  cancelCloses,  \* number of close(g.cancelC) executed
  doneCloses,    \* number of close(g.doneC) executed
  errCloses,     \* number of close(g.errC) executed
  panicked       \* a goroutine panicked

vars == <<args, tasks, wg, errC, errCap, errClosed, doneClosed, cancelClosed, cancelOnce,
          ctor, tpc, terr, calls, sent, wpc, cpc, received,
          cancelCloses, doneCloses, errCloses, panicked>>

chanVars == <<errC, errCap, errClosed, doneClosed, errCloses, doneCloses>>
cancelVars == <<cancelClosed, cancelOnce, cancelCloses>>
taskVars == <<tpc, terr, calls, sent>>
consumerVars == <<received>>

N == Len(args)
Tasks == 1..N
Returned == ctor = N + 2

\* Mutant of ErrCapOf: the buffer is one slot short of the number of tasks.
ErrCapOf_OneShort(ts) == IF Len(ts) > 0 THEN Len(ts) - 1 ELSE Len(ts)

\* make(chan error, len(tasks))
ErrCapOf(ts) == Len(ts)

Init ==
  /\ args \in SeqsUpTo(TaskKinds, MaxTasks)
  /\ tasks = args
  /\ wg = 0
  /\ errC = <<>>
  /\ errCap = ErrCapOf(args)
  /\ errClosed = FALSE
  /\ doneClosed = FALSE
  /\ cancelClosed = FALSE
  /\ cancelOnce = "fresh"
  /\ ctor = 1
  /\ tpc = [i \in 1..Len(args) |-> "new"]
  /\ terr = [i \in 1..Len(args) |-> Nil]
  /\ calls = [i \in 1..Len(args) |-> 0]
  /\ sent = [i \in 1..Len(args) |-> 0]
  /\ wpc = "new"
  /\ cpc = [c \in Callers |-> "idle"]
  /\ received = <<>>
  /\ cancelCloses = 0
  /\ doneCloses = 0
  /\ errCloses = 0
  /\ panicked = FALSE

\* ------------------------------------------------------------- constructor
\* Mutant of startTask: the goroutine is started without wg.Add(1).
startTask_NoAdd(i) ==
  /\ ctor = i
  /\ i <= N
  /\ tasks' = Append(tasks, args[i])
  /\ tpc' = [tpc EXCEPT ![i] = "spawned"]
  /\ ctor' = i + 1
  /\ UNCHANGED <<args, wg, chanVars, cancelVars, terr, calls, sent, wpc, cpc, consumerVars, panicked>>

\* One iteration of `for _, task := range tasks { tg.startTask(task) }`:
\* append to g.tasks, wg.Add(1), go func(){...}().
startTask(i) ==
  /\ ctor = i
  /\ i <= N
  /\ tasks' = Append(tasks, args[i])
  /\ wg' = wg + 1
  /\ tpc' = [tpc EXCEPT ![i] = "spawned"]
  /\ ctor' = i + 1
  /\ UNCHANGED <<args, chanVars, cancelVars, terr, calls, sent, wpc, cpc, consumerVars, panicked>>

\* `go func() { defer close(errC); defer close(doneC); wg.Wait() }()` and `return tg`.
SpawnWatcher ==
  /\ ctor = N + 1
  /\ wpc = "new"
  /\ wpc' = "wait"
  /\ ctor' = N + 2
  /\ UNCHANGED <<args, tasks, wg, chanVars, cancelVars, taskVars, cpc, consumerVars, panicked>>

\* --------------------------------------------------------- task goroutines
\* Mutant of AfterReturn: the sentinel is taken for a clean exit and filtered out.
AfterReturn_FilterSentinel(e) == IF e # Nil /\ e # ErrTaskCancelled THEN "send" ELSE "defer"

\* Mutant of AfterReturn: the `if err != nil` test is missing, every outcome is sent.
AfterReturn_AlwaysSend(e) == "send"

\* `if err := task(g.cancelC); err != nil { send }`: where the goroutine goes
\* once the task returned e.
AfterReturn(e) == IF e # Nil THEN "send" ELSE "defer"

\* The goroutine calls task(g.cancelC); the body runs up to its return or,
\* when it has to wait, up to the point where it blocks.
TaskInvoke(i) ==
  /\ tpc[i] = "spawned"
  /\ calls' = [calls EXCEPT ![i] = @ + 1]
  /\ IF Outcomes(args[i], i, cancelClosed) = {}
       THEN /\ tpc' = [tpc EXCEPT ![i] = "running"]
            /\ UNCHANGED terr
       ELSE \E e \in Outcomes(args[i], i, cancelClosed) :
              /\ terr' = [terr EXCEPT ![i] = e]
              /\ tpc' = [tpc EXCEPT ![i] = AfterReturn(e)]
  /\ UNCHANGED <<args, tasks, wg, chanVars, cancelVars, ctor, sent, wpc, cpc, consumerVars, panicked>>

\* The blocked task body wakes up and returns err.
TaskReturn(i) ==
  /\ tpc[i] = "running"
  /\ \E e \in Outcomes(args[i], i, cancelClosed) :
       /\ terr' = [terr EXCEPT ![i] = e]
       /\ tpc' = [tpc EXCEPT ![i] = AfterReturn(e)]
  /\ UNCHANGED <<args, tasks, wg, chanVars, cancelVars, ctor, calls, sent, wpc, cpc, consumerVars, panicked>>

\* Mutant of TaskSend: the goroutine reports the sentinel instead of the error
\* its task returned.
TaskSend_WrongValue(i) ==
  /\ tpc[i] = "send"
  /\ errClosed \/ Len(errC) < errCap
  /\ IF errClosed
       THEN /\ panicked' = TRUE
            /\ tpc' = [tpc EXCEPT ![i] = "defer"]
            /\ UNCHANGED <<errC, sent>>
       ELSE /\ errC' = Append(errC, ErrTaskCancelled)
            /\ sent' = [sent EXCEPT ![i] = @ + 1]
            /\ tpc' = [tpc EXCEPT ![i] = "defer"]
            /\ UNCHANGED panicked
  /\ UNCHANGED <<args, tasks, wg, errCap, errClosed, doneClosed, errCloses, doneCloses,
                 cancelVars, ctor, terr, calls, wpc, cpc, consumerVars>>

\* Mutant of TaskSend: fail-fast, the goroutine that reports an error also
\* cancels the group.
TaskSend_CancelsGroup(i) ==
  /\ tpc[i] = "send"
  /\ errClosed \/ Len(errC) < errCap
  /\ IF errClosed
       THEN /\ panicked' = TRUE
            /\ tpc' = [tpc EXCEPT ![i] = "defer"]
            /\ UNCHANGED <<errC, sent>>
       ELSE /\ errC' = Append(errC, terr[i])
            /\ sent' = [sent EXCEPT ![i] = @ + 1]
            /\ tpc' = [tpc EXCEPT ![i] = "defer"]
            /\ UNCHANGED panicked
  /\ cancelClosed' = TRUE
  /\ cancelOnce' = "done"
  /\ cancelCloses' = IF cancelClosed THEN cancelCloses ELSE cancelCloses + 1
  /\ UNCHANGED <<args, tasks, wg, errCap, errClosed, doneClosed, errCloses, doneCloses,
                 ctor, terr, calls, wpc, cpc, consumerVars>>

\* `g.errC <- err`: blocks while the buffer is full, panics on a closed channel.
TaskSend(i) ==
  /\ tpc[i] = "send"
  /\ errClosed \/ Len(errC) < errCap
  /\ IF errClosed
       THEN /\ panicked' = TRUE
            /\ tpc' = [tpc EXCEPT ![i] = "defer"]
            /\ UNCHANGED <<errC, sent>>
       ELSE /\ errC' = Append(errC, terr[i])
            /\ sent' = [sent EXCEPT ![i] = @ + 1]
            /\ tpc' = [tpc EXCEPT ![i] = "defer"]
            /\ UNCHANGED panicked
  /\ UNCHANGED <<args, tasks, wg, errCap, errClosed, doneClosed, errCloses, doneCloses,
                 cancelVars, ctor, terr, calls, wpc, cpc, consumerVars>>

\* Mutant of TaskDone: the task execution that brings the counter to zero
\* closes doneC itself, as well as the watcher.
TaskDone_ClosesWhenLast(i) ==
  /\ tpc[i] = "defer"
  /\ wg' = wg - 1
  /\ doneClosed' = (doneClosed \/ wg - 1 = 0)
  /\ doneCloses' = IF wg - 1 = 0 THEN doneCloses + 1 ELSE doneCloses
  /\ panicked' = (panicked \/ wg - 1 < 0 \/ (wg - 1 = 0 /\ doneClosed))
  /\ tpc' = [tpc EXCEPT ![i] = "exit"]
  /\ UNCHANGED <<args, tasks, errC, errCap, errClosed, errCloses, cancelVars, ctor, terr, calls, sent, wpc, cpc, consumerVars>>

\* Mutant of TaskDone: wg.Done() is not deferred and the error path returns before it.
TaskDone_NotDeferred(i) ==
  /\ tpc[i] = "defer"
  /\ wg' = IF terr[i] # Nil THEN wg ELSE wg - 1
  /\ panicked' = (panicked \/ wg' < 0)
  /\ tpc' = [tpc EXCEPT ![i] = "exit"]
  /\ UNCHANGED <<args, tasks, chanVars, cancelVars, ctor, terr, calls, sent, wpc, cpc, consumerVars>>

\* `defer g.wg.Done()`, then the goroutine exits.
TaskDone(i) ==
  /\ tpc[i] = "defer"
  /\ wg' = wg - 1
  /\ panicked' = (panicked \/ wg - 1 < 0)
  /\ tpc' = [tpc EXCEPT ![i] = "exit"]
  /\ UNCHANGED <<args, tasks, chanVars, cancelVars, ctor, terr, calls, sent, wpc, cpc, consumerVars>>

TaskStep(i) == TaskInvoke(i) \/ TaskReturn(i) \/ TaskSend(i) \/ TaskDone(i)

\* ----------------------------------------------------------------- watcher
\* Mutant of WatcherWait: the watcher does not wait for the counter to reach zero.
WatcherWait_NoWait ==
  /\ wpc = "wait"
  /\ wpc' = "closeDone"
  /\ UNCHANGED <<args, tasks, wg, chanVars, cancelVars, ctor, taskVars, cpc, consumerVars, panicked>>

\* tg.wg.Wait() returns once the counter is zero.
WatcherWait ==
  /\ wpc = "wait"
  /\ wg = 0
  /\ wpc' = "closeDone"
  /\ UNCHANGED <<args, tasks, wg, chanVars, cancelVars, ctor, taskVars, cpc, consumerVars, panicked>>

\* The deferred calls run last-in first-out: `defer close(tg.doneC)` was
\* registered second, so it runs first.
WatcherCloseDone ==
  /\ wpc = "closeDone"
  /\ doneClosed' = TRUE
  /\ doneCloses' = doneCloses + 1
  /\ panicked' = (panicked \/ doneClosed)
  /\ wpc' = "closeErr"
  /\ UNCHANGED <<args, tasks, wg, errC, errCap, errClosed, errCloses, cancelVars, ctor, taskVars, cpc, consumerVars>>

\* `defer close(tg.errC)` was registered first, so it runs last.
WatcherCloseErr ==
  /\ wpc = "closeErr"
  /\ errClosed' = TRUE
  /\ errCloses' = errCloses + 1
  /\ panicked' = (panicked \/ errClosed)
  /\ wpc' = "exit"
  /\ UNCHANGED <<args, tasks, wg, errC, errCap, doneClosed, doneCloses, cancelVars, ctor, taskVars, cpc, consumerVars>>

WatcherStep == WatcherWait \/ WatcherCloseDone \/ WatcherCloseErr

\* ------------------------------------------------------------------ Cancel
\* Mutant of CancelCall: Cancel() closes cancelC without the sync.Once.
CancelCall_NoOnce(c) ==
  /\ Returned
  /\ cpc[c] = "idle"
  /\ \A d \in Callers : d < c => cpc[d] # "idle"
  /\ cpc' = [cpc EXCEPT ![c] = "close"]
  /\ cancelOnce' = "running"
  /\ UNCHANGED <<args, tasks, wg, chanVars, cancelClosed, cancelCloses, ctor, taskVars, wpc, consumerVars, panicked>>

\* A caller holding the group calls g.Cancel(), which enters
\* g.cancelOnce.Do(f): Do returns at once when f has run, runs f when the
\* caller is the first, and makes the caller wait while another caller is
\* running f.  Callers are interchangeable, so they are numbered in the order
\* in which they make their call.
CancelCall(c) ==
  /\ Returned
  /\ cpc[c] = "idle"
  /\ \A d \in Callers : d < c => cpc[d] # "idle"
  /\ cpc' = [cpc EXCEPT ![c] = CASE cancelOnce = "done" -> "returned"
                                  [] cancelOnce = "fresh" -> "close"
                                  [] OTHER -> "do"]
  /\ cancelOnce' = IF cancelOnce = "fresh" THEN "running" ELSE cancelOnce
  /\ UNCHANGED <<args, tasks, wg, chanVars, cancelClosed, cancelCloses, ctor, taskVars, wpc, consumerVars, panicked>>

\* A caller waiting inside Do returns once the running caller has finished f.
OnceDo(c) ==
  /\ cpc[c] = "do"
  /\ cancelOnce = "done"
  /\ cpc' = [cpc EXCEPT ![c] = "returned"]
  /\ UNCHANGED <<args, tasks, wg, chanVars, cancelVars, ctor, taskVars, wpc, consumerVars, panicked>>

\* Mutant of CancelClose: Cancel() is synchronous, it returns only when every
\* task execution has exited.
CancelClose_WaitsForTasks(c) ==
  /\ cpc[c] = "close"
  /\ \A i \in Tasks : tpc[i] = "exit"
  /\ cancelClosed' = TRUE
  /\ cancelCloses' = cancelCloses + 1
  /\ panicked' = (panicked \/ cancelClosed)
  /\ cancelOnce' = "done"
  /\ cpc' = [cpc EXCEPT ![c] = "returned"]
  /\ UNCHANGED <<args, tasks, wg, chanVars, ctor, taskVars, wpc, consumerVars>>

\* Mutant of CancelClose: the function given to Do does not close cancelC.
CancelClose_NoClose(c) ==
  /\ cpc[c] = "close"
  /\ cancelOnce' = "done"
  /\ cpc' = [cpc EXCEPT ![c] = "returned"]
  /\ UNCHANGED <<args, tasks, wg, chanVars, cancelClosed, cancelCloses, ctor, taskVars, wpc, consumerVars, panicked>>

\* f: close(g.cancelC); Do marks the Once done and Cancel returns.
CancelClose(c) ==
  /\ cpc[c] = "close"
  /\ cancelClosed' = TRUE
  /\ cancelCloses' = cancelCloses + 1
  /\ panicked' = (panicked \/ cancelClosed)
  /\ cancelOnce' = "done"
  /\ cpc' = [cpc EXCEPT ![c] = "returned"]
  /\ UNCHANGED <<args, tasks, wg, chanVars, ctor, taskVars, wpc, consumerVars>>

CancelStep(c) == OnceDo(c) \/ CancelClose(c)

\* ---------------------------------------------------------------- consumer
\* `err := <-tg.ErrC()` with a value buffered.
ConsumerRecv ==
  /\ Returned
  /\ errC # <<>>
  /\ received' = Append(received, Head(errC))
  /\ errC' = Tail(errC)
  /\ UNCHANGED <<args, tasks, wg, errCap, errClosed, doneClosed, errCloses, doneCloses, cancelVars,
                 ctor, taskVars, wpc, cpc, panicked>>

\* `err, ok := <-tg.ErrC()` yields nil, !ok: the channel is closed and drained.
RecvClosed == Returned /\ errClosed /\ errC = <<>>

\* `<-tg.DoneC()` returns: doneC is closed.
DoneReadable == Returned /\ doneClosed

Next ==
  \/ \E i \in Tasks : startTask(i)
  \/ SpawnWatcher
  \/ \E i \in Tasks : TaskInvoke(i)
  \/ \E i \in Tasks : TaskReturn(i)
  \/ \E i \in Tasks : TaskSend(i)
  \/ \E i \in Tasks : TaskDone(i)
  \/ WatcherWait
  \/ WatcherCloseDone
  \/ WatcherCloseErr
  \/ \E c \in Callers : CancelCall(c)
  \/ \E c \in Callers : OnceDo(c)
  \/ \E c \in Callers : CancelClose(c)
  \/ ConsumerRecv

Spec == Init /\ [][Next]_vars

\* The Go scheduler runs every runnable goroutine: the constructor, each task
\* goroutine, the watcher and a caller inside Cancel() keep taking their
\* steps.  Nothing obliges a caller to call Cancel() or the consumer to read.
FairSpec ==
  /\ Spec
  /\ WF_vars((\E i \in Tasks : startTask(i)) \/ SpawnWatcher)
  /\ \A i \in 1..MaxTasks : WF_vars(i \in Tasks /\ TaskStep(i))
  /\ WF_vars(WatcherStep)
  /\ \A c \in Callers : WF_vars(CancelStep(c))

\* ================================================================ properties
AllExited == \A i \in Tasks : tpc[i] = "exit"
AllBodiesReturned == Returned /\ \A i \in Tasks : tpc[i] \in {"send", "defer", "exit"}
Closed == errClosed /\ doneClosed

\* C1: whenever the completion signal doneC is closed, the error queue errC
\* is already closed (the watcher closes errC before doneC).
C1_DoneImpliesErrClosed == doneClosed => errClosed

\* C2: errC is closed only when every one of the N task executions has
\* finished: body returned, error (if any) pushed, wg.Done() executed;
\* with or without Cancel().
C2_ErrClosedImpliesAllFinished ==
  errClosed =>
    /\ Returned
    /\ wg = 0
    /\ \A i \in Tasks : tpc[i] = "exit" /\ calls[i] = 1 /\ (terr[i] # Nil => sent[i] = 1)

C2_Witness ==
  /\ errClosed
  /\ N >= 2
  /\ cancelClosed
  /\ \E i \in Tasks : terr[i] # Nil
  /\ \E i \in Tasks : args[i] = "waitOk"

\* C3: once doneC is signaled none of the N+1 units (N task executions and
\* the watcher) has a step left: the pending count is zero, every task
\* goroutine and the watcher have exited, and no push to or close of errC
\* is still to come.
C3_DoneImpliesQuiescent ==
  doneClosed =>
    /\ wg = 0
    /\ AllExited
    /\ wpc = "exit"
    /\ errClosed

\* C4: any number of Cancel() calls, sequential or concurrent, close cancelC
\* exactly once and never panic; every call returns; once a call has returned
\* the cancellation state is the one a single call leaves, and later calls
\* change nothing but the caller's own position.
C4_Inv ==
  /\ cancelCloses <= 1
  /\ ~panicked
  /\ cancelClosed <=> (cancelCloses = 1)
  /\ (\E c \in Callers : cpc[c] = "returned") =>
        (cancelClosed /\ cancelCloses = 1 /\ cancelOnce = "done")

C4_CancelIdempotent ==
  /\ []C4_Inv
  /\ [][cancelClosed => UNCHANGED <<cancelClosed, cancelCloses>>]_vars
  /\ \A c \in Callers : (cpc[c] \in {"do", "close"}) ~> (cpc[c] = "returned")

C4_Witness ==
  /\ \A c \in Callers : cpc[c] = "returned"
  /\ Cardinality(Callers) >= 2
  /\ cancelCloses = 1
  /\ cancelClosed

\* C5: errC never holds more than N values (its capacity is N), and a task
\* execution that is about to push finds room in the buffer: the push is
\* enabled whatever the consumer has read.
C5_PushNeverBlocks ==
  /\ Len(errC) <= N
  /\ \A i \in Tasks : tpc[i] = "send" => (Len(errC) < errCap /\ ENABLED TaskSend(i))

C5_Witness ==
  /\ N >= 2
  /\ Len(errC) = N
  /\ received = <<>>
  /\ ~errClosed

\* C6: under fair scheduling, once every task body has returned errC is
\* eventually closed and doneC eventually fires, whether or not the consumer
\* ever reads errC; and a consumer that drained errC to its closure finds
\* doneC eventually readable.
C6_EventuallyClosed ==
  /\ AllBodiesReturned ~> Closed
  /\ RecvClosed ~> DoneReadable

C6_Witness ==
  /\ Closed
  /\ N >= 2
  /\ Len(errC) = N
  /\ received = <<>>

\* C7: when every one of the N >= 0 tasks returns nil, nothing is ever pushed
\* onto errC, and eventually errC is closed and empty (a read yields nil, !ok)
\* and doneC has fired; for N = 0 no task step is involved.
AllOk == \A i \in Tasks : args[i] = "ok"

C7_AllNilClosesEmpty ==
  /\ [](AllOk => (errC = <<>> /\ received = <<>> /\ \A i \in Tasks : sent[i] = 0))
  /\ AllOk ~> (Closed /\ errC = <<>> /\ received = <<>>)

C7_Witness ==
  /\ AllOk
  /\ N >= 2
  /\ Closed
  /\ RecvClosed
  /\ received = <<>>

\* C8: when each of the N tasks returns its own distinct error, the consumer
\* that has seen errC closed has received exactly N values, one per task and
\* each task's error once, in any order; and doneC fires only after errC is
\* closed.
AllDistinctFail == N >= 1 /\ \A i \in Tasks : args[i] = "fail"
IsPermutationOfErrors(r) ==
  /\ Len(r) = N
  /\ \A i \in Tasks : Cardinality({k \in 1..Len(r) : r[k] = TaskErr(i)}) = 1

C8_DrainThenCloseThenDone ==
  AllDistinctFail =>
    /\ RecvClosed => IsPermutationOfErrors(received)
    /\ DoneReadable => errClosed

\* C9: in a group of tasks that each block until cancelC is readable and then
\* return nil, neither errC nor doneC is closed while cancelC is open; once
\* Cancel() has been called (by one caller or by several at once) every task
\* observes it and, under fair scheduling, errC is closed empty and doneC has
\* been closed exactly once.
AllWait == N >= 1 /\ \A i \in Tasks : args[i] = "waitOk"

C9_CancelReleasesGroup ==
  /\ []((AllWait /\ ~cancelClosed) => (~doneClosed /\ ~errClosed /\ \A i \in Tasks : tpc[i] \notin {"defer", "exit"}))
  /\ [](doneCloses <= 1)
  /\ (AllWait /\ \E c \in Callers : cpc[c] # "idle") ~>
        (AllExited /\ Closed /\ errC = <<>> /\ received = <<>> /\ doneCloses = 1)

C9_Witness ==
  /\ AllWait
  /\ \A c \in Callers : cpc[c] = "returned"
  /\ AllExited
  /\ Closed
  /\ doneCloses = 1
  /\ errC = <<>>

\* C10: the constructor starts exactly N task executions and one watcher;
\* every supplied task is invoked at most once at any time, and exactly once
\* (N invocations in total) by the time errC is closed or doneC is signaled.
C10_EachTaskInvokedOnce ==
  /\ \A i \in Tasks : calls[i] <= 1
  /\ Returned => (wpc # "new" /\ \A i \in Tasks : tpc[i] # "new")
  /\ ~Returned => wpc = "new"
  /\ (errClosed \/ DoneReadable) => \A i \in Tasks : calls[i] = 1

C10_Witness ==
  /\ N >= 2
  /\ DoneReadable
  /\ \A i \in Tasks : calls[i] = 1
  /\ \E i \in Tasks : args[i] = "waitOk"

\* C11: doneC goes from open to closed at most once and never reopens, and
\* the same holds of errC: no second close of either is ever executed (which
\* would panic), in any interleaving.
C11_Inv ==
  /\ doneCloses <= 1
  /\ errCloses <= 1
  /\ doneClosed <=> (doneCloses = 1)
  /\ errClosed <=> (errCloses = 1)
  /\ ~panicked

C11_ClosedAtMostOnce ==
  /\ []C11_Inv
  /\ [][(doneClosed => doneClosed') /\ (errClosed => errClosed')]_vars
  /\ [][(doneCloses' # doneCloses \/ errCloses' # errCloses) => (wpc' # wpc)]_vars

C11_Witness ==
  /\ N >= 2
  /\ Closed
  /\ wpc = "exit"
  /\ doneCloses = 1
  /\ errCloses = 1
  /\ \A c \in Callers : cpc[c] = "returned"

\* C12: a task execution pushes exactly one value onto errC when its task
\* returned a non-nil error, that very value, and nothing when it returned
\* nil; so the values ever pushed (those read plus those still buffered) are
\* exactly the non-nil errors returned so far, at most N of them.
Pushed == received \o errC
PastSend(i) == tpc[i] \in {"defer", "exit"}
CountIn(r, v) == Cardinality({k \in 1..Len(r) : r[k] = v})

C12_OnePushPerError ==
  /\ \A i \in Tasks : sent[i] <= 1
  /\ \A i \in Tasks : PastSend(i) => (sent[i] = IF terr[i] # Nil THEN 1 ELSE 0)
  /\ \A i \in Tasks : ~PastSend(i) => sent[i] = 0
  /\ Len(Pushed) = Cardinality({i \in Tasks : sent[i] = 1})
  /\ Len(Pushed) <= N
  /\ \A k \in 1..Len(Pushed) :
       CountIn(Pushed, Pushed[k]) =
         Cardinality({i \in Tasks : sent[i] = 1 /\ terr[i] = Pushed[k]})

C12_Witness ==
  /\ N >= 2
  /\ AllExited
  /\ \E i \in Tasks : terr[i] = Nil /\ sent[i] = 0
  /\ \E i \in Tasks : terr[i] = TaskErr(i) /\ sent[i] = 1
  /\ Len(Pushed) = 1

\* C13 (as stated): the pending count starts at N and goes down by one with
\* each task execution that exits, so it is N minus the number of exited
\* executions, never negative, and zero exactly when all N have exited.
Started == {i \in Tasks : tpc[i] # "new"}
Exited == {i \in Tasks : tpc[i] = "exit"}

C13_PendingStartsAtN ==
  /\ wg = N - Cardinality(Exited)
  /\ wg >= 0
  /\ (wg = 0) <=> AllExited

\* C13 (amended): the pending count starts at zero and is raised by one for
\* each task the constructor starts; each task execution lowers it exactly
\* once, on its exit and whatever its task returned, and nothing else changes
\* it.  It is the number of started executions that have not exited, never
\* negative; once the constructor has returned it is N minus the number of
\* exited executions and is zero exactly when all N have exited.  The watcher
\* is past its wait only with the count at zero and all N executions exited.
C13_Inv ==
  /\ wg = Cardinality(Started) - Cardinality(Exited)
  /\ wg >= 0
  /\ Returned => (wg = N - Cardinality(Exited) /\ ((wg = 0) <=> AllExited))
  /\ wpc \in {"closeDone", "closeErr", "exit"} => (wg = 0 /\ AllExited)

C13_PendingCount ==
  /\ []C13_Inv
  /\ [][wg' # wg =>
          \/ wg' = wg + 1 /\ ctor' = ctor + 1
          \/ /\ wg' = wg - 1
             /\ \E i \in Tasks : /\ tpc[i] = "defer"
                                 /\ tpc'[i] = "exit"
                                 /\ \A j \in Tasks \ {i} : tpc'[j] = tpc[j]]_vars
  /\ [][\A i \in Tasks : (tpc[i] = "defer" /\ tpc'[i] # tpc[i]) => (tpc'[i] = "exit" /\ wg' = wg - 1)]_vars

C13_Witness ==
  /\ N >= 2
  /\ ~Returned
  /\ wg = 0
  /\ Exited # {}
  /\ \E i \in Exited : terr[i] # Nil

\* C14: a step of Cancel() changes nothing but the cancellation signal (and
\* the caller's own position): the pending count, errC's contents, capacity
\* and open/closed status, doneC, every task execution and the watcher are
\* left as they were; and a call in progress returns without waiting for any
\* task, also in a group with a task that never returns.
HasHang == \E i \in Tasks : args[i] = "hang"

C14_CancelFrame ==
  /\ [][cpc' # cpc =>
          UNCHANGED <<args, tasks, wg, errC, errCap, errClosed, doneClosed, errCloses, doneCloses,
                      ctor, tpc, terr, calls, sent, wpc, received, panicked>>]_vars
  /\ \A c \in Callers :
       (cpc[c] \in {"do", "close"}) ~> (cpc[c] = "returned" /\ cancelClosed)
  /\ [](HasHang => ~Closed)

C14_Witness ==
  /\ HasHang
  /\ \E i \in Tasks : args[i] = "waitOk" /\ tpc[i] = "running"
  /\ \E i \in Tasks : args[i] = "hang" /\ tpc[i] = "running"
  /\ \A c \in Callers : cpc[c] = "returned"
  /\ cancelClosed

\* C15: a task that returns an error affects the coordinator by one push onto
\* errC and its own decrement only.  cancelC is closed only when some caller
\* has called Cancel(); a step of a task execution never touches the
\* cancellation signal, another task execution, the watcher or the channels'
\* open/closed status.
C15_Inv ==
  /\ cancelClosed => \E c \in Callers : cpc[c] = "returned"
  /\ cancelOnce # "fresh" => \E c \in Callers : cpc[c] # "idle"

C15_TaskErrorIsLocal ==
  /\ []C15_Inv
  /\ [][\A i \in Tasks :
          (tpc[i] # "new" /\ tpc'[i] # tpc[i]) =>
             /\ UNCHANGED <<cancelClosed, cancelOnce, cancelCloses, cpc, errClosed, doneClosed,
                            errCloses, doneCloses, wpc, ctor, tasks, received, panicked>>
             /\ \A j \in Tasks \ {i} :
                  tpc'[j] = tpc[j] /\ terr'[j] = terr[j] /\ calls'[j] = calls[j] /\ sent'[j] = sent[j]
             /\ tpc[i] = "send" => (errC' = Append(errC, terr[i]) /\ wg' = wg)
             /\ tpc[i] = "defer" => (errC' = errC /\ wg' = wg - 1)
             /\ tpc[i] \notin {"send", "defer"} => (errC' = errC /\ wg' = wg)]_vars

C15_Witness ==
  /\ \E i \in Tasks : tpc[i] = "exit" /\ terr[i] # Nil /\ sent[i] = 1
  /\ \E i \in Tasks : args[i] = "waitOk" /\ tpc[i] = "running"
  /\ ~cancelClosed
  /\ \A c \in Callers : cpc[c] = "idle"
  /\ Returned

\* C16: a task that returns the sentinel ErrTaskCancelled is handled by the
\* coordinator exactly as a task that returns any other error: its goroutine
\* takes the same steps (return, one push of the returned value, one
\* decrement, exit), none of which touches the cancellation signal; the value
\* is not filtered out; and errC and doneC are closed only when it has exited.
\* Both kinds of task are held to one and the same step relation, which
\* differs in the pushed value only.
ReturnsError(i) == args[i] \in {"fail", "failSentinel"}
ErrorOf(i) == IF args[i] = "failSentinel" THEN ErrTaskCancelled ELSE TaskErr(i)
ErrorSteps == {<<"new", "spawned">>, <<"spawned", "send">>, <<"send", "defer">>, <<"defer", "exit">>}

C16_Inv ==
  /\ \A i \in Tasks : ReturnsError(i) =>
       /\ tpc[i] \in {"send", "defer", "exit"} => terr[i] = ErrorOf(i)
       /\ PastSend(i) => (sent[i] = 1 /\ CountIn(Pushed, ErrorOf(i)) >= 1)
       /\ (errClosed \/ doneClosed) => tpc[i] = "exit"
  /\ cancelClosed => \E c \in Callers : cpc[c] = "returned"

C16_SentinelLikeAnyError ==
  /\ []C16_Inv
  /\ [][\A i \in Tasks :
          (ReturnsError(i) /\ tpc'[i] # tpc[i]) =>
             /\ <<tpc[i], tpc'[i]>> \in ErrorSteps
             /\ UNCHANGED <<cancelClosed, cancelOnce, cancelCloses, errClosed, doneClosed, wpc>>
             /\ tpc[i] = "send" => (errC' = Append(errC, ErrorOf(i)) /\ wg' = wg)
             /\ tpc[i] = "defer" => (errC' = errC /\ wg' = wg - 1)]_vars

C16_Witness ==
  /\ \E i \in Tasks : args[i] = "failSentinel" /\ tpc[i] = "exit"
  /\ \E i \in Tasks : args[i] = "fail" /\ tpc[i] = "exit"
  /\ CountIn(Pushed, ErrTaskCancelled) = 1
  /\ Len(Pushed) = 2
  /\ ~cancelClosed
  /\ Closed

\* C17: once the constructor has returned, and from then on, g.tasks is
\* exactly the sequence of the N supplied tasks, in order: N entries, none
\* added, duplicated or removed, as many as errC has slots.
C17_TasksAreTheSupplied ==
  Returned =>
    /\ tasks = args
    /\ Len(tasks) = N
    /\ Len(tasks) = errCap

\* C18: no task execution ever sends on a closed errC: while an execution has
\* its push ahead of it the pending count is positive and the watcher is
\* still waiting, the push comes before the execution's decrement, and no
\* goroutine panics; also when all N tasks fail at once and nothing is read.
C18_Inv ==
  /\ ~panicked
  /\ \A i \in Tasks : tpc[i] \in {"spawned", "running", "send"} =>
       (~errClosed /\ wg >= 1 /\ wpc \in {"new", "wait"})
  /\ \A i \in Tasks : (tpc[i] = "exit" /\ terr[i] # Nil) => sent[i] = 1
  /\ errClosed => (AllExited /\ wg = 0)

C18_NoSendOnClosed ==
  /\ []C18_Inv
  /\ [][Len(errC') > Len(errC) => (~errClosed /\ ~errClosed' /\ wg' = wg /\ wg >= 1)]_vars

C18_Witness ==
  /\ AllDistinctFail
  /\ N >= 2
  /\ AllExited
  /\ errClosed
  /\ Len(errC) = N
  /\ received = <<>>
  /\ ~panicked
  /\ \A c \in Callers : cpc[c] = "idle"

====
